---- MODULE Spec2Model ----
(***************************************************************************)
(* The Discord IPC client of MathHelper-1.0-release.py: candidate          *)
(* enumeration, the framing of JSON payloads behind an 8-byte header, the  *)
(* exact-length read loop, the handshake and close().                      *)
(***************************************************************************)
EXTENDS Integers, Sequences, FiniteSets, TLC

(***************************************************************************)
(* Opcodes.                                                                *)
(***************************************************************************)
OP_HANDSHAKE == 0
OP_FRAME == 1
OP_CLOSE == 2
OP_PING == 3
OP_PONG == 4

\* range(10) of both _connect methods
NumCandidates == 10
Candidates == 0 .. (NumCandidates - 1)

\* size of the header read by _recv_header
HeaderSize == 8

(***************************************************************************)
(* Bounds of the model.                                                    *)
(***************************************************************************)
\* how many candidate paths exist in the environment
MaxExisting == 2
\* the candidates that exist are drawn from
EnvSample == {0, 9}
\* how many frames the peer sends over one connection
MaxPeerFrames == 1
\* how many public operations the caller invokes on a constructed client
MaxCalls == 1
\* the same two budgets in the runs where Discord is listening
MaxSessionFrames == 2
MaxSessionCalls == 2
\* the longest frame the peer sends back to the client
MaxEchoLen == 64
\* the same two budgets for the application as it is wired: the frames the
\* peer sends, and the passes of the loop of discord_rpc
MaxAppFrames == 1
MaxAppCalls == 2

(***************************************************************************)
(* Text.  A Python str is a sequence of code points, a Python bytes a      *)
(* sequence of integers 0..255.  Chars gives the code points of the string *)
(* literals that occur in the program and in the peer's replies.           *)
(***************************************************************************)
Chars(s) ==
    CASE s = "v" -> <<118>>
      [] s = "client_id" -> <<99, 108, 105, 101, 110, 116, 95, 105, 100>>
      [] s = "cmd" -> <<99, 109, 100>>
      [] s = "evt" -> <<101, 118, 116>>
      [] s = "data" -> <<100, 97, 116, 97>>
      [] s = "nonce" -> <<110, 111, 110, 99, 101>>
      [] s = "DISPATCH" -> <<68, 73, 83, 80, 65, 84, 67, 72>>
      [] s = "READY" -> <<82, 69, 65, 68, 89>>
      [] s = "ERROR" -> <<69, 82, 82, 79, 82>>
      [] s = "SET_ACTIVITY" -> <<83, 69, 84, 95, 65, 67, 84, 73, 86, 73, 84, 89>>
      [] s = "args" -> <<97, 114, 103, 115>>
      [] s = "pid" -> <<112, 105, 100>>
      [] s = "activity" -> <<97, 99, 116, 105, 118, 105, 116, 121>>
      [] s = "state" -> <<115, 116, 97, 116, 101>>
      [] s = "details" -> <<100, 101, 116, 97, 105, 108, 115>>
      [] s = "assets" -> <<97, 115, 115, 101, 116, 115>>
      [] s = "large_text" -> <<108, 97, 114, 103, 101, 95, 116, 101, 120, 116>>
      [] s = "large_image" -> <<108, 97, 114, 103, 101, 95, 105, 109, 97, 103, 101>>
      [] s = "code" -> <<99, 111, 100, 101>>
      [] s = "message" -> <<109, 101, 115, 115, 97, 103, 101>>
      [] s = "797139388513386546" -> <<55, 57, 55, 49, 51, 57, 51, 56, 56, 53, 49, 51, 51, 56, 54, 53, 52, 54>>
      [] s = "MathHelper" -> <<77, 97, 116, 104, 72, 101, 108, 112, 101, 114>>
      [] s = "icon" -> <<105, 99, 111, 110>>
      [] s = "menu" -> <<109, 101, 110, 117>>
      [] s = "x" -> <<120>>
      [] s = "/tmp" -> <<47, 116, 109, 112>>
      [] s = "discord-ipc-{}" -> <<100, 105, 115, 99, 111, 114, 100, 45, 105, 112, 99, 45, 123, 125>>
      [] s = "discord-ipc-" -> <<100, 105, 115, 99, 111, 114, 100, 45, 105, 112, 99, 45>>
      [] s = "/run" -> <<47, 114, 117, 110>>
      [] s = "/srv/" -> <<47, 115, 114, 118, 47>>
      [] s = "/{}" -> <<47, 123, 125>>

(***************************************************************************)
(* JSON values as Python holds them: None, bool, int, str, list and dict   *)
(* (a dict keeps its keys in insertion order).                             *)
(***************************************************************************)
JNull == [t |-> "null"]
JBool(b) == [t |-> "bool", b |-> b]
JInt(n) == [t |-> "int", n |-> n]
JStr(s) == [t |-> "str", s |-> s]
JArr(a) == [t |-> "arr", a |-> a]
JObj(kv) == [t |-> "obj", kv |-> kv]

\* d[k] = v on a dict: an existing key keeps its place, a new key goes last
RECURSIVE DictSet(_, _, _)
DictSet(kv, k, v) ==
    IF kv = <<>> THEN << <<k, v>> >>
    ELSE IF Head(kv)[1] = k THEN << <<k, v>> >> \o Tail(kv)
    ELSE <<Head(kv)>> \o DictSet(Tail(kv), k, v)

DictHas(kv, k) == \E i \in 1 .. Len(kv) : kv[i][1] = k
DictGet(kv, k) == kv[CHOOSE i \in 1 .. Len(kv) : kv[i][1] = k][2]

\* a dict literal {k1: v1, k2: v2, ...}
RECURSIVE DictOf(_)
DictOf(pairs) ==
    IF pairs = <<>> THEN <<>>
    ELSE DictSet(DictOf(SubSeq(pairs, 1, Len(pairs) - 1)),
                 pairs[Len(pairs)][1], pairs[Len(pairs)][2])

Obj(pairs) == JObj(DictOf(pairs))

(***************************************************************************)
(* struct.pack("<II", ...) and struct.unpack("<II", ...).                  *)
(***************************************************************************)
\* the four bytes of n most significant first, as struct.pack(">I", n) gives
LE32_BigEndian(n) ==
    << (n \div 16777216) % 256, (n \div 65536) % 256, (n \div 256) % 256, n % 256 >>

LE32(n) ==
    << n % 256, (n \div 256) % 256, (n \div 65536) % 256, (n \div 16777216) % 256 >>

UnLE32(b) == b[1] + 256 * b[2] + 65536 * b[3] + 16777216 * b[4]

PackHeader(op, length) == LE32(op) \o LE32(length)

UnpackHeader(header) ==
    [op |-> UnLE32(SubSeq(header, 1, 4)), length |-> UnLE32(SubSeq(header, 5, 8))]

(***************************************************************************)
(* json.dumps(data, separators=(',', ':')): compact, ASCII only.           *)
(***************************************************************************)
HexDigit(d) == IF d < 10 THEN 48 + d ELSE 87 + d

Hex4(c) ==
    << HexDigit((c \div 4096) % 16), HexDigit((c \div 256) % 16),
       HexDigit((c \div 16) % 16), HexDigit(c % 16) >>

EscapeChar(c) ==
    CASE c = 34 -> <<92, 34>>
      [] c = 92 -> <<92, 92>>
      [] c = 10 -> <<92, 110>>
      [] c = 13 -> <<92, 114>>
      [] c = 9 -> <<92, 116>>
      [] c = 8 -> <<92, 98>>
      [] c = 12 -> <<92, 102>>
      [] c >= 32 /\ c <= 126 -> <<c>>
      [] OTHER -> <<92, 117>> \o Hex4(c)

RECURSIVE EscapeStr(_)
EscapeStr(s) == IF s = <<>> THEN <<>> ELSE EscapeChar(Head(s)) \o EscapeStr(Tail(s))

DumpStr(s) == <<34>> \o EscapeStr(s) \o <<34>>

RECURSIVE Digits(_)
Digits(n) == IF n < 10 THEN <<48 + n>> ELSE Digits(n \div 10) \o <<48 + (n % 10)>>

DumpInt(n) == IF n < 0 THEN <<45>> \o Digits(0 - n) ELSE Digits(n)

RECURSIVE Dumps(_), DumpMembers(_), DumpElements(_)
Dumps(val) ==
    CASE val.t = "null" -> <<110, 117, 108, 108>>
      [] val.t = "bool" -> IF val.b THEN <<116, 114, 117, 101>> ELSE <<102, 97, 108, 115, 101>>
      [] val.t = "int" -> DumpInt(val.n)
      [] val.t = "str" -> DumpStr(val.s)
      [] val.t = "arr" -> <<91>> \o DumpElements(val.a) \o <<93>>
      [] val.t = "obj" -> <<123>> \o DumpMembers(val.kv) \o <<125>>

DumpMembers(kv) ==
    IF kv = <<>> THEN <<>>
    ELSE DumpStr(Head(kv)[1]) \o <<58>> \o Dumps(Head(kv)[2])
         \o (IF Tail(kv) = <<>> THEN <<>> ELSE <<44>> \o DumpMembers(Tail(kv)))

DumpElements(a) ==
    IF a = <<>> THEN <<>>
    ELSE Dumps(Head(a)) \o (IF Tail(a) = <<>> THEN <<>> ELSE <<44>> \o DumpElements(Tail(a)))

\* str.encode('utf-8') of the ASCII text json.dumps produces
EncodeUtf8(text) == text

(***************************************************************************)
(* bytes.decode('utf-8').                                                  *)
(***************************************************************************)
IsCont(b, i) == i <= Len(b) /\ b[i] >= 128 /\ b[i] <= 191

RECURSIVE DecodeUtf8(_, _, _)
DecodeUtf8(b, i, acc) ==
    IF i > Len(b) THEN [ok |-> TRUE, s |-> acc]
    ELSE IF b[i] < 128 THEN DecodeUtf8(b, i + 1, Append(acc, b[i]))
    ELSE IF b[i] >= 194 /\ b[i] <= 223 /\ IsCont(b, i + 1)
        THEN DecodeUtf8(b, i + 2, Append(acc, (b[i] - 192) * 64 + (b[i + 1] - 128)))
    ELSE IF /\ b[i] >= 224 /\ b[i] <= 239 /\ IsCont(b, i + 1) /\ IsCont(b, i + 2)
            /\ (b[i] = 224 => b[i + 1] >= 160)
            /\ (b[i] = 237 => b[i + 1] <= 159)
        THEN DecodeUtf8(b, i + 3,
                 Append(acc, (b[i] - 224) * 4096 + (b[i + 1] - 128) * 64 + (b[i + 2] - 128)))
    ELSE IF /\ b[i] >= 240 /\ b[i] <= 244
            /\ IsCont(b, i + 1) /\ IsCont(b, i + 2) /\ IsCont(b, i + 3)
            /\ (b[i] = 240 => b[i + 1] >= 144)
            /\ (b[i] = 244 => b[i + 1] <= 143)
        THEN DecodeUtf8(b, i + 4,
                 Append(acc, (b[i] - 240) * 262144 + (b[i + 1] - 128) * 4096
                             + (b[i + 2] - 128) * 64 + (b[i + 3] - 128)))
    ELSE [ok |-> FALSE, s |-> <<>>]

(***************************************************************************)
(* json.loads(text): the scanner of the json module on the value kinds     *)
(* above (numbers without fraction or exponent).  A parse yields           *)
(* [ok, v, i]: whether it succeeded, the value, the index after it.        *)
(***************************************************************************)
ParseFail == [ok |-> FALSE, v |-> JNull, i |-> 0]
ParseOk(val, next) == [ok |-> TRUE, v |-> val, i |-> next]

IsWs(c) == c \in {32, 9, 10, 13}
IsDigit(c) == c >= 48 /\ c <= 57
IsHex(c) == IsDigit(c) \/ (c >= 97 /\ c <= 102) \/ (c >= 65 /\ c <= 70)
\* the value of a hex digit, reading the letters as upper case only
HexVal_UpperOnly(c) == IF IsDigit(c) THEN c - 48 ELSE c - 55
HexVal(c) == IF IsDigit(c) THEN c - 48 ELSE IF c >= 97 THEN c - 87 ELSE c - 55

RECURSIVE SkipWs(_, _)
SkipWs(s, i) == IF i <= Len(s) /\ IsWs(s[i]) THEN SkipWs(s, i + 1) ELSE i

HasAt(s, i, lit) == i + Len(lit) - 1 <= Len(s) /\ SubSeq(s, i, i + Len(lit) - 1) = lit

Unescape(c) ==
    CASE c = 34 -> 34
      [] c = 92 -> 92
      [] c = 47 -> 47
      [] c = 98 -> 8
      [] c = 102 -> 12
      [] c = 110 -> 10
      [] c = 114 -> 13
      [] c = 116 -> 9
      [] OTHER -> -1

\* the characters of a string, from the index after its opening quote
RECURSIVE ParseStr(_, _, _)
ParseStr(s, i, acc) ==
    IF i > Len(s) THEN [ok |-> FALSE, s |-> <<>>, i |-> 0]
    ELSE IF s[i] = 34 THEN [ok |-> TRUE, s |-> acc, i |-> i + 1]
    ELSE IF s[i] < 32 THEN [ok |-> FALSE, s |-> <<>>, i |-> 0]
    ELSE IF s[i] # 92 THEN ParseStr(s, i + 1, Append(acc, s[i]))
    ELSE IF i + 1 > Len(s) THEN [ok |-> FALSE, s |-> <<>>, i |-> 0]
    ELSE IF s[i + 1] = 117
        THEN IF /\ i + 5 <= Len(s)
                /\ \A k \in 2 .. 5 : IsHex(s[i + k])
             THEN ParseStr(s, i + 6,
                      Append(acc, HexVal(s[i + 2]) * 4096 + HexVal(s[i + 3]) * 256
                                  + HexVal(s[i + 4]) * 16 + HexVal(s[i + 5])))
             ELSE [ok |-> FALSE, s |-> <<>>, i |-> 0]
    ELSE IF Unescape(s[i + 1]) >= 0 THEN ParseStr(s, i + 2, Append(acc, Unescape(s[i + 1])))
    ELSE [ok |-> FALSE, s |-> <<>>, i |-> 0]

RECURSIVE ParseDigits(_, _, _)
ParseDigits(s, i, acc) ==
    IF i <= Len(s) /\ IsDigit(s[i]) THEN ParseDigits(s, i + 1, acc * 10 + (s[i] - 48))
    ELSE [n |-> acc, i |-> i]

\* -?(0|[1-9][0-9]*)
ParseInt(s, i) ==
    LET neg == s[i] = 45
        j == IF neg THEN i + 1 ELSE i
    IN  IF j > Len(s) \/ ~IsDigit(s[j]) THEN ParseFail
        ELSE LET d == IF s[j] = 48 THEN [n |-> 0, i |-> j + 1] ELSE ParseDigits(s, j, 0)
             IN  ParseOk(JInt(IF neg THEN 0 - d.n ELSE d.n), d.i)

RECURSIVE ParseValue(_, _), ParseMembers(_, _, _), ParseElements(_, _, _)
ParseValue(s, i) ==
    IF i > Len(s) THEN ParseFail
    ELSE CASE s[i] = 34 ->
                LET r == ParseStr(s, i + 1, <<>>)
                IN  IF r.ok THEN ParseOk(JStr(r.s), r.i) ELSE ParseFail
           [] s[i] = 123 ->
                LET j == SkipWs(s, i + 1)
                IN  IF j <= Len(s) /\ s[j] = 125 THEN ParseOk(JObj(<<>>), j + 1)
                    ELSE ParseMembers(s, j, <<>>)
           [] s[i] = 91 ->
                LET j == SkipWs(s, i + 1)
                IN  IF j <= Len(s) /\ s[j] = 93 THEN ParseOk(JArr(<<>>), j + 1)
                    ELSE ParseElements(s, j, <<>>)
           [] s[i] = 45 \/ IsDigit(s[i]) -> ParseInt(s, i)
           [] HasAt(s, i, <<110, 117, 108, 108>>) -> ParseOk(JNull, i + 4)
           [] HasAt(s, i, <<116, 114, 117, 101>>) -> ParseOk(JBool(TRUE), i + 4)
           [] HasAt(s, i, <<102, 97, 108, 115, 101>>) -> ParseOk(JBool(FALSE), i + 5)
           [] OTHER -> ParseFail

\* "key" : value pairs from index i, up to and including the closing brace
ParseMembers(s, i, acc) ==
    IF i > Len(s) \/ s[i] # 34 THEN ParseFail
    ELSE LET k == ParseStr(s, i + 1, <<>>)
         IN  IF ~k.ok THEN ParseFail
             ELSE LET c == SkipWs(s, k.i)
                  IN  IF c > Len(s) \/ s[c] # 58 THEN ParseFail
                      ELSE LET r == ParseValue(s, SkipWs(s, c + 1))
                           IN  IF ~r.ok THEN ParseFail
                               ELSE LET e == SkipWs(s, r.i)
                                        kv == DictSet(acc, k.s, r.v)
                                    IN  IF e > Len(s) THEN ParseFail
                                        ELSE IF s[e] = 125 THEN ParseOk(JObj(kv), e + 1)
                                        ELSE IF s[e] = 44
                                            THEN ParseMembers(s, SkipWs(s, e + 1), kv)
                                        ELSE ParseFail

\* values from index i, up to and including the closing bracket
ParseElements(s, i, acc) ==
    LET r == ParseValue(s, i)
    IN  IF ~r.ok THEN ParseFail
        ELSE LET e == SkipWs(s, r.i)
             IN  IF e > Len(s) THEN ParseFail
                 ELSE IF s[e] = 93 THEN ParseOk(JArr(Append(acc, r.v)), e + 1)
                 ELSE IF s[e] = 44 THEN ParseElements(s, SkipWs(s, e + 1), Append(acc, r.v))
                 ELSE ParseFail

\* json.loads: one value, surrounded by optional whitespace, and nothing else
Loads(text) ==
    LET r == ParseValue(text, SkipWs(text, 1))
    IN  IF r.ok /\ SkipWs(text, r.i) > Len(text) THEN [ok |-> TRUE, v |-> r.v]
        ELSE [ok |-> FALSE, v |-> JNull]

(***************************************************************************)
(* State.                                                                  *)
(***************************************************************************)
VARIABLES
    platform,     \* sys.platform, which for_platform dispatches on
    pathExists,   \* the candidate indices whose socket path exists (os.path.exists)
    connectable,  \* the candidate indices whose open / connect succeeds
    probed,       \* the indices on which open / connect was attempted, in order
    visited,      \* the indices the for loop of _connect went through, in order
    environ,      \* os.environ, the four variables _get_pipe_pattern looks up
    paths,        \* the paths the for loop of _connect formatted, in order
    handle,       \* the index of the connected pipe or socket, NoHandle if none
    peer,         \* the peer's end: "open", "closed" (EOF) or "reset"
    peerSent,     \* how many frames the peer has sent
    inbound,      \* bytes the peer sent that the client has not read yet
    io,           \* the client's side of the transport (see NewIo)
    pc,           \* where the caller is: "new", "recv_header", "recv_payload",
                  \* "ready" (a client object is in the caller's hands), "failed"
    ctx,          \* the operation a running recv belongs to: "handshake" or "recv"
    buf,          \* _recv_exactly: buf
    remaining,    \* _recv_exactly: size_remaining
    hdr,          \* recv: (op, length) as _recv_header returned them
    received,     \* the last frame recv decoded, NoFrame if none
    hsReply,      \* the frame send_recv returned to _do_handshake, NoFrame if none
    err,          \* the exception the last operation raised, NoErr if none
    eofRead,      \* whether a _recv call of the running read returned b""
    calls,        \* how many public operations the caller has invoked
    lastCall,     \* the public operation invoked last, with its arguments
    uuids,        \* how many values uuid.uuid4() has produced
    peerLog,      \* what the peer has sent, one entry per message, in order
    limits,       \* how many messages the peer sends and how many operations
                  \* the caller invokes in this run
    activity,     \* the module-level activity dict
    mainloop,     \* the main thread: "running" (in root.mainloop()) or "exited"
    pubPc         \* the thread running discord_rpc: "connect" (in for_platform),
                  \* "sleep", "publish" (about to call set_activity), "dead"

vars == << platform, pathExists, connectable, probed, visited, environ, paths, handle,
           peer, peerSent,
           inbound, io, pc, ctx, buf, remaining, hdr, received, hsReply, err, eofRead,
           calls, lastCall, uuids, peerLog, limits, activity, mainloop, pubPc >>

\* the environment variables and the paths made from them
envVars == << environ, paths >>

\* what the application's threads hold besides the client
appVars == << activity, mainloop, pubPc >>

NoHandle == -1
\* an exception: its type, the function that raised it, its argument
NoErr == [type |-> "none", at |-> "", arg |-> JNull]
Err(type, at, arg) == [type |-> type, at |-> at, arg |-> arg]
NoFrame == [op |-> -1, data |-> JNull]
NoHdr == [op |-> -1, length |-> -1]
NoCall == [name |-> "", op |-> -1, arg |-> JNull]
Call(name, op, arg) == [name |-> name, op |-> op, arg |-> arg]

\* the transport as the client sees it:
\*   wire         the byte strings handed to the peer, one per successful _write
\*   writeCalls   invocations of _write
\*   closeCalls   invocations of _close
\*   closeInvoked invocations of close()
\*   released     the handle was closed by _close
\*   dirty        win32: bytes are left in the file object's write buffer
\*                after a flush that failed
\*   closeRaised  invocations of _close that raised
\*   sendLog      the calls of send: (op, data) and whether send returned
\*   recvLog      what each recv that read a whole frame ended with: the
\*                (op, data) it returned, NoFrame if it raised
NewIo ==
    [wire |-> <<>>, writeCalls |-> 0, closeCalls |-> 0, closeInvoked |-> 0,
     released |-> FALSE, dirty |-> FALSE, closeRaised |-> 0,
     sendLog |-> <<>>, recvLog |-> <<>>]

(***************************************************************************)
(* The candidate paths.  os.environ.get gives None for a variable that is  *)
(* not set; a value is a str, here a sequence of code points.              *)
(***************************************************************************)
env_keys == << "XDG_RUNTIME_DIR", "TMPDIR", "TMP", "TEMP" >>

NotSet == [set |-> FALSE, s |-> <<>>]
EnvStr(s) == [set |-> TRUE, s |-> s]

\* the values a variable takes: not set, empty, a directory, a directory
\* written with a trailing slash, a directory whose name has braces
EnvValues ==
    { NotSet, EnvStr(<<>>), EnvStr(Chars("/run")), EnvStr(Chars("/srv/")),
      EnvStr(Chars("/{}")) }

\* the environment of a desktop session
DefaultEnviron ==
    [k \in {env_keys[n] : n \in DOMAIN env_keys} |->
        IF k = "XDG_RUNTIME_DIR" THEN EnvStr(Chars("/run")) ELSE NotSet]

\* os.path.join(a, b) of posixpath, for a relative b
PathJoin(a, b) ==
    IF a = <<>> \/ a[Len(a)] = 47 THEN a \o b ELSE a \o <<47>> \o b

\* the for loop of _get_pipe_pattern from env_keys[n] on: `if dir_path:` is
\* false for None and for the empty string
RECURSIVE DirPathFrom(_)
DirPathFrom(n) ==
    IF n > Len(env_keys) THEN Chars("/tmp")
    ELSE LET dir_path == environ[env_keys[n]]
         IN  IF dir_path.set /\ dir_path.s # <<>> THEN dir_path.s
             ELSE DirPathFrom(n + 1)

GetPipePattern == PathJoin(DirPathFrom(1), Chars("discord-ipc-{}"))

\* the pattern of WinDiscordIpcClient: \\?\pipe\discord-ipc-{}
WinPipePattern == <<92, 92, 63, 92, 112, 105, 112, 101, 92, 100, 105, 115, 99, 111, 114, 100, 45, 105, 112, 99, 45, 123, 125>>

\* the position of the first "}" of s at or after k, 0 if there is none
RECURSIVE ClosingBrace(_, _)
ClosingBrace(s, k) ==
    IF k > Len(s) THEN 0 ELSE IF s[k] = 125 THEN k ELSE ClosingBrace(s, k + 1)

IsDigits(name) == \A n \in DOMAIN name : name[n] \in 48 .. 57

\* str.format(i) with one positional argument i in 0..9, from position k of
\* the format string s on: "{{" and "}}" are literal braces, "{}" is the next
\* automatic field, "{0}" a numbered field, "{name}" a keyword field.  auto
\* counts the automatic fields so far, manual tells that a numbered field was
\* seen, out is the text made so far.
RECURSIVE FormatFrom(_, _, _, _, _, _)
FormatFrom(s, k, i, auto, manual, out) ==
    IF k > Len(s) THEN [path |-> out, raised |-> NoErr]
    ELSE IF s[k] = 125
    THEN IF k < Len(s) /\ s[k + 1] = 125
         THEN FormatFrom(s, k + 2, i, auto, manual, Append(out, 125))
         ELSE [path |-> <<>>, raised |-> Err("ValueError", "_connect", JNull)]
    ELSE IF s[k] # 123 THEN FormatFrom(s, k + 1, i, auto, manual, Append(out, s[k]))
    ELSE IF k < Len(s) /\ s[k + 1] = 123
    THEN FormatFrom(s, k + 2, i, auto, manual, Append(out, 123))
    ELSE LET e == ClosingBrace(s, k + 1)
             name == SubSeq(s, k + 1, e - 1)
         IN  IF e = 0 \/ \E n \in DOMAIN name : name[n] = 123
             THEN [path |-> <<>>, raised |-> Err("ValueError", "_connect", JNull)]
             ELSE IF name = <<>>
             THEN IF manual
                  THEN [path |-> <<>>, raised |-> Err("ValueError", "_connect", JNull)]
                  ELSE IF auto >= 1
                  THEN [path |-> <<>>, raised |-> Err("IndexError", "_connect", JNull)]
                  ELSE FormatFrom(s, e + 1, i, auto + 1, manual, Append(out, 48 + i))
             ELSE IF IsDigits(name)
             THEN IF auto >= 1
                  THEN [path |-> <<>>, raised |-> Err("ValueError", "_connect", JNull)]
                  ELSE IF \E n \in DOMAIN name : name[n] # 48
                  THEN [path |-> <<>>, raised |-> Err("IndexError", "_connect", JNull)]
                  ELSE FormatFrom(s, e + 1, i, auto, TRUE, Append(out, 48 + i))
             ELSE [path |-> <<>>, raised |-> Err("KeyError", "_connect", JNull)]

\* pipe_pattern.format(i)
Format(pipe_pattern, i) == FormatFrom(pipe_pattern, 1, i, 0, FALSE, <<>>)

\* _connect as a whole: the pattern is made once; format raises for every i
\* or for none, and it is called before anything is opened or connected
WithPaths(pipe_pattern, r) ==
    IF Format(pipe_pattern, 0).raised # NoErr
    THEN [probed |-> <<>>, visited |-> <<>>, handle |-> NoHandle, returned |-> "",
          raised |-> Format(pipe_pattern, 0).raised, paths |-> <<>>]
    ELSE [probed |-> r.probed, visited |-> r.visited, handle |-> r.handle,
          returned |-> r.returned, raised |-> r.raised,
          paths |-> [n \in DOMAIN r.visited |-> Format(pipe_pattern, r.visited[n]).path]]

(***************************************************************************)
(* _connect: candidate enumeration.  Both methods end their for loop's     *)
(* else branch with `return DiscordIpcError(...)`: the error object is     *)
(* the method's return value, nothing is raised.                           *)
(***************************************************************************)
RECURSIVE WinProbe(_, _)
WinProbe(i, tried) ==
    IF i = NumCandidates
    THEN [probed |-> tried, visited |-> tried, handle |-> NoHandle,
          returned |-> "DiscordIpcError", raised |-> NoErr]
    ELSE IF i \in connectable
    THEN [probed |-> Append(tried, i), visited |-> Append(tried, i), handle |-> i,
          returned |-> "None", raised |-> NoErr]
    ELSE WinProbe(i + 1, Append(tried, i))

WinConnect == WithPaths(WinPipePattern, WinProbe(0, <<>>))

\* the for loop going through the candidates from the last to the first
RECURSIVE UnixProbe_Descending(_, _, _)
UnixProbe_Descending(i, tried, seen) ==
    LET j == NumCandidates - 1 - i
    IN  IF i = NumCandidates
        THEN [probed |-> tried, visited |-> seen, handle |-> NoHandle,
              returned |-> "DiscordIpcError", raised |-> NoErr]
        ELSE IF j \notin pathExists THEN UnixProbe_Descending(i + 1, tried, Append(seen, j))
        ELSE IF j \in connectable
        THEN [probed |-> Append(tried, j), visited |-> Append(seen, j), handle |-> j,
              returned |-> "None", raised |-> NoErr]
        ELSE UnixProbe_Descending(i + 1, Append(tried, j), Append(seen, j))

\* the for loop without its test of os.path.exists: connect is attempted on
\* every candidate
RECURSIVE UnixProbe_NoExistsCheck(_, _, _)
UnixProbe_NoExistsCheck(i, tried, seen) ==
    IF i = NumCandidates
    THEN [probed |-> tried, visited |-> seen, handle |-> NoHandle,
          returned |-> "DiscordIpcError", raised |-> NoErr]
    ELSE IF i \in pathExists /\ i \in connectable
    THEN [probed |-> Append(tried, i), visited |-> Append(seen, i), handle |-> i,
          returned |-> "None", raised |-> NoErr]
    ELSE UnixProbe_NoExistsCheck(i + 1, Append(tried, i), Append(seen, i))

RECURSIVE UnixProbe(_, _, _)
UnixProbe(i, tried, seen) ==
    IF i = NumCandidates
    THEN [probed |-> tried, visited |-> seen, handle |-> NoHandle,
          returned |-> "DiscordIpcError", raised |-> NoErr]
    ELSE IF i \notin pathExists THEN UnixProbe(i + 1, tried, Append(seen, i))
    ELSE IF i \in connectable
    THEN [probed |-> Append(tried, i), visited |-> Append(seen, i), handle |-> i,
          returned |-> "None", raised |-> NoErr]
    ELSE UnixProbe(i + 1, Append(tried, i), Append(seen, i))

UnixConnect == WithPaths(GetPipePattern, UnixProbe(0, <<>>, <<>>))

\* _connect going through the candidates a second time when the first pass
\* connected none
Connect_Retry ==
    LET c == IF platform = "win32" THEN WinConnect ELSE UnixConnect
    IN  IF c.handle # NoHandle THEN c
        ELSE [c EXCEPT !.probed = c.probed \o c.probed, !.visited = c.visited \o c.visited]

Connect == IF platform = "win32" THEN WinConnect ELSE UnixConnect

(***************************************************************************)
(* The transport primitives _write, _recv and _close, on a transport t     *)
(* with handle h.  Each yields the transport afterwards and the exception  *)
(* raised, if any.                                                         *)
(***************************************************************************)
\* _write: WinDiscordIpcClient has no _f when no pipe was opened; the Unix
\* socket object always exists, connected or not
TWrite(t, h, data) ==
    LET t1 == [t EXCEPT !.writeCalls = @ + 1]
    IN  IF h = NoHandle
        THEN [t |-> t1,
              raised |-> Err(IF platform = "win32" THEN "AttributeError" ELSE "OSError",
                            "_write", JNull)]
        ELSE IF t.released
        THEN [t |-> t1,
              raised |-> Err(IF platform = "win32" THEN "ValueError" ELSE "OSError",
                            "_write", JNull)]
        ELSE IF peer # "open"
        THEN [t |-> [t1 EXCEPT !.dirty = (platform = "win32")],
              raised |-> Err("OSError", "_write", JNull)]
        ELSE [t |-> [t1 EXCEPT !.wire = Append(@, data)], raised |-> NoErr]

\* _close: closing a file object flushes its buffer first, and raises what the
\* flush raises (the file is closed all the same); closing again is a no-op.
\* fault: the operating system fails the close of the handle.
TClose(t, fault) ==
    LET raises == ~t.released /\ (fault \/ (platform = "win32" /\ t.dirty))
    IN  [t |-> [t EXCEPT !.closeCalls = @ + 1, !.released = TRUE, !.dirty = FALSE,
                         !.closeRaised = IF raises THEN @ + 1 ELSE @],
         raised |-> IF raises THEN Err("OSError", "_close", JNull) ELSE NoErr]

Min(a, b) == IF a < b THEN a ELSE b

\* _recv(size): the outcomes one call can have now; none when the call blocks.
\* A socket returns what has arrived, at least one byte; a buffered file
\* object waits for size bytes and returns fewer only at end of file.
\* _recv_exactly: buf += chunk, with the chunk put in front of what was read
Assemble_Prepend(b, chunk) == chunk \o b

\* _recv_exactly: buf += chunk
Assemble(b, chunk) == b \o chunk

\* size_remaining counting the calls of _recv instead of the bytes they returned
SizeRemaining_PerRead(size_remaining, chunk) == size_remaining - 1

\* size_remaining -= len(chunk)
SizeRemaining(size_remaining, chunk) == size_remaining - Len(chunk)

\* _recv reading whatever has arrived, whatever size was asked for
RecvOutcomes_Greedy(size) ==
    IF io.released
    THEN {[chunk |-> <<>>,
           raised |-> Err(IF platform = "win32" THEN "ValueError" ELSE "OSError",
                         "_recv", JNull)]}
    ELSE IF peer = "reset"
    THEN {[chunk |-> <<>>, raised |-> Err("OSError", "_recv", JNull)]}
    ELSE IF inbound # <<>>
         THEN {[chunk |-> inbound, raised |-> NoErr]}
         ELSE IF peer = "closed" THEN {[chunk |-> <<>>, raised |-> NoErr]}
         ELSE {}

RecvOutcomes(size) ==
    IF io.released
    THEN {[chunk |-> <<>>,
           raised |-> Err(IF platform = "win32" THEN "ValueError" ELSE "OSError",
                         "_recv", JNull)]}
    ELSE IF peer = "reset"
    THEN {[chunk |-> <<>>, raised |-> Err("OSError", "_recv", JNull)]}
    ELSE IF platform = "win32"
    THEN IF Len(inbound) >= size
         THEN {[chunk |-> SubSeq(inbound, 1, size), raised |-> NoErr]}
         ELSE IF peer = "closed" THEN {[chunk |-> inbound, raised |-> NoErr]}
         ELSE {}
    ELSE IF inbound # <<>>
         THEN {[chunk |-> SubSeq(inbound, 1, k), raised |-> NoErr] :
                   k \in 1 .. Min(size, Len(inbound))}
         ELSE IF peer = "closed" THEN {[chunk |-> <<>>, raised |-> NoErr]}
         ELSE {}

(***************************************************************************)
(* send, close and the handshake's decision.                               *)
(***************************************************************************)
\* send writing the payload first and the header after it
Send_PayloadFirst(t, h, data, op) ==
    LET data_bytes == EncodeUtf8(Dumps(data))
        header == PackHeader(op, Len(data_bytes))
        w == TWrite(t, h, data_bytes \o header)
    IN  [t |-> [w.t EXCEPT !.sendLog =
                    Append(@, [op |-> op, data |-> data, ok |-> w.raised = NoErr])],
         raised |-> w.raised]

\* send with len(data), the number of items of the payload, in the header
Send_LenOfData(t, h, data, op) ==
    LET data_bytes == EncodeUtf8(Dumps(data))
        header == PackHeader(op, Len(IF data.t = "obj" THEN data.kv ELSE data.a))
        w == TWrite(t, h, header \o data_bytes)
    IN  [t |-> [w.t EXCEPT !.sendLog =
                    Append(@, [op |-> op, data |-> data, ok |-> w.raised = NoErr])],
         raised |-> w.raised]

Send(t, h, data, op) ==
    LET data_bytes == EncodeUtf8(Dumps(data))
        header == PackHeader(op, Len(data_bytes))
        w == TWrite(t, h, header \o data_bytes)
    IN  [t |-> [w.t EXCEPT !.sendLog =
                    Append(@, [op |-> op, data |-> data, ok |-> w.raised = NoErr])],
         raised |-> w.raised]

\* close without its finally clause: _close() runs only after a send that returned
Close_NoFinally(t, h, fault) ==
    LET s == Send([t EXCEPT !.closeInvoked = @ + 1], h, JObj(<<>>), OP_CLOSE)
        c == TClose(s.t, fault)
    IN  IF s.raised # NoErr THEN [t |-> s.t, raised |-> s.raised]
        ELSE [t |-> c.t, raised |-> c.raised]

\* close with the exception of the try block outliving the finally block: what
\* send raised reaches the caller, what _close raised after it is dropped
Close_FirstErrorWins(t, h, fault) ==
    LET s == Send([t EXCEPT !.closeInvoked = @ + 1], h, JObj(<<>>), OP_CLOSE)
        c == TClose(s.t, fault)
    IN  [t |-> c.t, raised |-> IF s.raised # NoErr THEN s.raised ELSE c.raised]

\* close: try: send({}, op=OP_CLOSE) finally: _close().  An exception of the
\* finally block replaces the one of the try block.
Close(t, h, fault) ==
    LET s == Send([t EXCEPT !.closeInvoked = @ + 1], h, JObj(<<>>), OP_CLOSE)
        c == TClose(s.t, fault)
    IN  [t |-> c.t, raised |-> IF c.raised # NoErr THEN c.raised ELSE s.raised]

\* a handshake payload that leaves the protocol version out
HandshakePayload_NoVersion(client_id) ==
    Obj(<< <<Chars("client_id"), JStr(client_id)>> >>)

HandshakePayload(client_id) ==
    Obj(<< <<Chars("v"), JInt(1)>>, <<Chars("client_id"), JStr(client_id)>> >>)

\* the condition of _do_handshake without its test of ret_data['cmd']
HandshakeCheck_NoCmd(ret_op, ret_data) ==
    IF ret_op # OP_FRAME THEN "reject"
    ELSE IF ret_data.t # "obj" THEN "TypeError"
    ELSE IF ~DictHas(ret_data.kv, Chars("evt")) THEN "KeyError"
    ELSE IF DictGet(ret_data.kv, Chars("evt")) # JStr(Chars("READY")) THEN "reject"
    ELSE "accept"

\* the condition of _do_handshake, evaluated left to right with Python's
\* short-circuit `and`: subscripting a non-dict raises TypeError, a missing
\* key raises KeyError
HandshakeCheck(ret_op, ret_data) ==
    IF ret_op # OP_FRAME THEN "reject"
    ELSE IF ret_data.t \in {"null", "bool", "int"} THEN "TypeError"
    ELSE IF ret_data.t \in {"str", "arr"} THEN "TypeError"
    ELSE IF ~DictHas(ret_data.kv, Chars("cmd")) THEN "KeyError"
    ELSE IF DictGet(ret_data.kv, Chars("cmd")) # JStr(Chars("DISPATCH")) THEN "reject"
    ELSE IF ~DictHas(ret_data.kv, Chars("evt")) THEN "KeyError"
    ELSE IF DictGet(ret_data.kv, Chars("evt")) # JStr(Chars("READY")) THEN "reject"
    ELSE "accept"

\* _do_handshake without the raise of its else branch: a reply that is not a
\* Close falls through and __init__ returns
DoHandshake_NoRaise(ret_op, ret_data, fault) ==
    LET chk == HandshakeCheck(ret_op, ret_data)
    IN  IF chk = "accept" THEN [pc |-> "ready", err |-> NoErr, io |-> io]
        ELSE IF chk # "reject" THEN [pc |-> "failed", err |-> Err(chk, "_do_handshake", JNull), io |-> io]
        ELSE IF ret_op = OP_CLOSE
        THEN LET c == Close(io, handle, fault)
             IN  [pc |-> "failed",
                  err |-> IF c.raised # NoErr THEN c.raised
                          ELSE Err("RuntimeError", "_do_handshake", ret_data),
                  io |-> c.t]
        ELSE [pc |-> "ready", err |-> NoErr, io |-> io]

\* _do_handshake calling close() on every rejected reply, whatever its opcode
DoHandshake_CloseAlways(ret_op, ret_data, fault) ==
    LET chk == HandshakeCheck(ret_op, ret_data)
    IN  IF chk = "accept" THEN [pc |-> "ready", err |-> NoErr, io |-> io]
        ELSE IF chk # "reject" THEN [pc |-> "failed", err |-> Err(chk, "_do_handshake", JNull), io |-> io]
        ELSE LET c == Close(io, handle, fault)
             IN  [pc |-> "failed",
                  err |-> IF c.raised # NoErr THEN c.raised
                          ELSE Err("RuntimeError", "_do_handshake", ret_data),
                  io |-> c.t]

\* _do_handshake after send_recv returned (ret_op, ret_data)
DoHandshake(ret_op, ret_data, fault) ==
    LET chk == HandshakeCheck(ret_op, ret_data)
    IN  IF chk = "accept" THEN [pc |-> "ready", err |-> NoErr, io |-> io]
        ELSE IF chk # "reject" THEN [pc |-> "failed", err |-> Err(chk, "_do_handshake", JNull), io |-> io]
        ELSE IF ret_op = OP_CLOSE
        THEN LET c == Close(io, handle, fault)
             IN  [pc |-> "failed",
                  err |-> IF c.raised # NoErr THEN c.raised ELSE Err("RuntimeError", "_do_handshake", ret_data),
                  io |-> c.t]
        ELSE [pc |-> "failed", err |-> Err("RuntimeError", "_do_handshake", ret_data), io |-> io]

\* an exception leaving recv: out of __init__ no object comes back, out of a
\* public recv the caller keeps the object
Raise(e) == [pc |-> IF ctx = "handshake" THEN "failed" ELSE "ready", err |-> e, io |-> io]

\* recv handing out an empty dict when the frame has no payload
AfterFrame_EmptyDefault(op, payload, fault) ==
    LET text == DecodeUtf8(payload, 1, <<>>)
        parsed == IF payload = <<>> THEN [ok |-> TRUE, v |-> JObj(<<>>)] ELSE Loads(text.s)
    IN  IF ~text.ok THEN [out |-> Raise(Err("UnicodeDecodeError", "recv", JNull)), frame |-> NoFrame]
        ELSE IF ~parsed.ok THEN [out |-> Raise(Err("JSONDecodeError", "recv", JNull)), frame |-> NoFrame]
        ELSE [out |-> IF ctx = "handshake" THEN DoHandshake(op, parsed.v, fault)
                      ELSE [pc |-> "ready", err |-> NoErr, io |-> io],
              frame |-> [op |-> op, data |-> parsed.v]]

\* recv after both reads: decode the payload, then hand (op, data) to the caller
AfterFrame(op, payload, fault) ==
    LET text == DecodeUtf8(payload, 1, <<>>)
        parsed == Loads(text.s)
    IN  IF ~text.ok THEN [out |-> Raise(Err("UnicodeDecodeError", "recv", JNull)), frame |-> NoFrame]
        ELSE IF ~parsed.ok THEN [out |-> Raise(Err("JSONDecodeError", "recv", JNull)), frame |-> NoFrame]
        ELSE [out |-> IF ctx = "handshake" THEN DoHandshake(op, parsed.v, fault)
                      ELSE [pc |-> "ready", err |-> NoErr, io |-> io],
              frame |-> [op |-> op, data |-> parsed.v]]

(***************************************************************************)
(* What the peer may send.                                                 *)
(***************************************************************************)
PeerFrame(op, data) == PackHeader(op, Len(Dumps(data))) \o Dumps(data)

ReadyData == Obj(<< <<Chars("cmd"), JStr(Chars("DISPATCH"))>>, <<Chars("evt"), JStr(Chars("READY"))>> >>)

PeerMessages ==
    { PeerFrame(OP_FRAME, ReadyData),
      PeerFrame(OP_FRAME, Obj(<< <<Chars("cmd"), JStr(Chars("DISPATCH"))>>,
                                 <<Chars("evt"), JStr(Chars("ERROR"))>> >>)),
      PeerFrame(OP_FRAME, Obj(<< <<Chars("cmd"), JStr(Chars("x"))>>,
                                 <<Chars("evt"), JStr(Chars("READY"))>> >>)),
      PeerFrame(OP_FRAME, Obj(<< <<Chars("evt"), JStr(Chars("READY"))>> >>)),
      PeerFrame(OP_FRAME, Obj(<< <<Chars("cmd"), JStr(Chars("DISPATCH"))>> >>)),
      PeerFrame(OP_FRAME, JNull),
      PeerFrame(OP_CLOSE, Obj(<< <<Chars("code"), JInt(4000)>> >>)),
      PeerFrame(OP_CLOSE, ReadyData),
      PeerFrame(OP_PING, ReadyData),
      PackHeader(OP_FRAME, 0),
      PackHeader(OP_FRAME, 1) \o <<123>>,
      PackHeader(OP_FRAME, 1) \o <<255>>,
      \* opcode 258, which no OP_ constant names, with payload {}
      <<2, 1, 0, 0, 2, 0, 0, 0, 123, 125>> }

ClientId == Chars("797139388513386546")

\* what the caller passes to send: every opcode, dicts and a list, a string
\* with a non-ASCII character and a quote
SendChoices ==
    { [op |-> OP_FRAME, data |-> JObj(<<>>)],
      [op |-> OP_HANDSHAKE, data |-> Obj(<< <<Chars("x"), JInt(1)>> >>)],
      [op |-> OP_CLOSE, data |-> JArr(<< JInt(-1), JNull, JBool(TRUE) >>)],
      [op |-> OP_PING, data |-> Obj(<< <<Chars("x"), JInt(1)>> >>)],
      [op |-> OP_PONG, data |-> Obj(<< <<Chars("x"), JStr(<<1084, 34>>)>> >>)] }

\* the texts of the module-level activity dict, as code points
StateText == << 1042, 1077, 1088, 1089, 1080, 1103, 32, 118, 49, 46, 48, 45, 98, 101, 116, 97, 32, 40, 100, 101, 118, 41 >>
DetailsMenu == << 1042, 32, 1075, 1083, 1072, 1074, 1085, 1086, 1084, 32, 1084, 1077, 1085, 1102 >>
DetailsPerimetr == << 1056, 1072, 1089, 1089, 1095, 1080, 1090, 1099, 1074, 1072, 1077, 1090, 32, 1087, 1077, 1088, 1080, 1084, 1077, 1090, 1088 >>

Activity(details) ==
    Obj(<< <<Chars("state"), JStr(StateText)>>,
           <<Chars("details"), JStr(details)>>,
           <<Chars("assets"), Obj(<< <<Chars("large_text"), JStr(Chars("MathHelper"))>>,
                                     <<Chars("large_image"), JStr(Chars("icon"))>> >>)>> >>)

\* the activity dict as the module creates it and as Perimetr leaves it
Activities == { Activity(DetailsMenu), Activity(DetailsPerimetr) }

\* os.getpid()
Pid == 4242

\* str(uuid.uuid4()): the n-th value drawn differs from every other one; its
\* text is written here as "u" followed by the decimal digits of n
Uuid4Str(n) == <<117>> \o Digits(n)

\* set_activity with one nonce for every call, drawn when the module is loaded
SetActivity_FixedNonce(t, h, act, n) ==
    Send(t, h,
         Obj(<< <<Chars("cmd"), JStr(Chars("SET_ACTIVITY"))>>,
                <<Chars("args"), Obj(<< <<Chars("pid"), JInt(Pid)>>,
                                        <<Chars("activity"), act>> >>)>>,
                <<Chars("nonce"), JStr(Uuid4Str(0))>> >>),
         OP_FRAME)

\* set_activity(act), uuid4() returning its n-th value
SetActivity(t, h, act, n) ==
    Send(t, h,
         Obj(<< <<Chars("cmd"), JStr(Chars("SET_ACTIVITY"))>>,
                <<Chars("args"), Obj(<< <<Chars("pid"), JInt(Pid)>>,
                                        <<Chars("activity"), act>> >>)>>,
                <<Chars("nonce"), JStr(Uuid4Str(n))>> >>),
         OP_FRAME)

\* whether the operating system fails the close of the handle
CloseFaults == BOOLEAN

(***************************************************************************)
(* Initial states: the platform and what the candidates do.                *)
(***************************************************************************)
InitClient ==
    /\ probed = <<>>
    /\ visited = <<>>
    /\ paths = <<>>
    /\ activity = Activity(DetailsMenu)
    /\ mainloop = "running"
    /\ pubPc = "connect"
    /\ handle = NoHandle
    /\ peer = "open"
    /\ peerSent = 0
    /\ inbound = <<>>
    /\ io = NewIo
    /\ pc = "new"
    /\ ctx = "handshake"
    /\ buf = <<>>
    /\ remaining = 0
    /\ hdr = NoHdr
    /\ received = NoFrame
    /\ hsReply = NoFrame
    /\ err = NoErr
    /\ eofRead = FALSE
    /\ calls = 0
    /\ lastCall = NoCall
    /\ uuids = 0
    /\ peerLog = <<>>

Init ==
    /\ platform \in {"win32", "linux"}
    /\ pathExists \in {s \in SUBSET EnvSample : Cardinality(s) <= MaxExisting}
    /\ connectable \in SUBSET pathExists
    /\ (platform = "win32" => connectable = pathExists)
    /\ limits = [peer |-> MaxPeerFrames, calls |-> MaxCalls]
    /\ environ = DefaultEnviron
    /\ InitClient

\* a Discord client listens on candidate 0: the runs go on after the handshake
SessionInit ==
    /\ platform \in {"win32", "linux"}
    /\ pathExists = {0}
    /\ connectable = {0}
    /\ limits = [peer |-> MaxSessionFrames, calls |-> MaxSessionCalls]
    /\ environ = DefaultEnviron
    /\ InitClient

(***************************************************************************)
(* __init__ up to its first read: _connect(), then _do_handshake()'s       *)
(* send_recv sends the Handshake frame and enters recv.  What _connect     *)
(* returns is dropped.                                                     *)
(***************************************************************************)
Construct ==
    /\ pc = "new"
    /\ LET c == Connect
           s == Send(io, c.handle, HandshakePayload(ClientId), OP_HANDSHAKE)
       IN  /\ probed' = c.probed
           /\ visited' = c.visited
           /\ paths' = c.paths
           /\ handle' = c.handle
           /\ IF c.raised # NoErr
              THEN /\ pc' = "failed" /\ err' = c.raised /\ io' = io
                   /\ UNCHANGED << buf, remaining >>
              ELSE /\ io' = s.t
                   /\ err' = s.raised
                   /\ IF s.raised # NoErr
                      THEN pc' = "failed" /\ UNCHANGED << buf, remaining >>
                      ELSE pc' = "recv_header" /\ buf' = <<>> /\ remaining' = HeaderSize
    /\ UNCHANGED << environ, appVars, platform, pathExists, connectable, peer, peerSent, inbound, ctx, hdr,
                    received, hsReply, eofRead, calls, lastCall, uuids, peerLog, limits >>

(***************************************************************************)
(* One pass of the while loop of _recv_exactly, and, when the loop ends,   *)
(* what recv and its caller do until the next read or the return.          *)
(***************************************************************************)
RecvStep ==
    /\ pc \in {"recv_header", "recv_payload"}
    /\ \E r \in RecvOutcomes(remaining) :
         IF r.raised # NoErr
         THEN /\ pc' = Raise(r.raised).pc
              /\ err' = r.raised
              /\ UNCHANGED << io, inbound, buf, remaining, hdr, received, hsReply, eofRead >>
         ELSE LET chunk == r.chunk
                  buf2 == Assemble(buf, chunk)
                  rem2 == SizeRemaining(remaining, chunk)
                  rest == SubSeq(inbound, Len(chunk) + 1, Len(inbound))
                  h == IF pc = "recv_header" THEN UnpackHeader(buf2) ELSE hdr
              IN  /\ inbound' = rest
                  /\ IF rem2 # 0
                     THEN /\ buf' = buf2
                          /\ remaining' = rem2
                          /\ eofRead' = (eofRead \/ chunk = <<>>)
                          /\ UNCHANGED << pc, io, hdr, received, hsReply, err >>
                     ELSE IF pc = "recv_header" /\ h.length # 0
                     THEN /\ pc' = "recv_payload"
                          /\ hdr' = h
                          /\ buf' = <<>>
                          /\ remaining' = h.length
                          /\ UNCHANGED << io, received, hsReply, err, eofRead >>
                     ELSE \E fault \in IF ctx = "handshake" /\ h.op = OP_CLOSE
                                       THEN CloseFaults ELSE {FALSE} :
                          LET a == AfterFrame(h.op, IF pc = "recv_header" THEN <<>> ELSE buf2, fault)
                          IN  /\ pc' = a.out.pc
                              /\ err' = a.out.err
                              /\ io' = [a.out.io EXCEPT !.recvLog = Append(@, a.frame)]
                              /\ received' = a.frame
                              /\ hsReply' = IF ctx = "handshake" THEN a.frame ELSE hsReply
                              /\ hdr' = h
                              /\ buf' = buf2
                              /\ remaining' = rem2
                              /\ UNCHANGED eofRead
    /\ UNCHANGED << envVars, appVars, platform, pathExists, connectable, probed, visited, handle, peer, peerSent,
                    ctx, calls, lastCall, uuids, peerLog, limits >>

(***************************************************************************)
(* The caller's public operations on a constructed client.                 *)
(***************************************************************************)
CallSend ==
    /\ pc = "ready" /\ calls < limits.calls
    /\ \E c \in SendChoices :
         LET s == Send(io, handle, c.data, c.op)
         IN  /\ io' = s.t /\ err' = s.raised
             /\ lastCall' = Call("send", c.op, c.data)
    /\ calls' = calls + 1
    /\ UNCHANGED << envVars, appVars, platform, pathExists, connectable, probed, visited, handle, peer, peerSent,
                    inbound, pc, ctx, buf, remaining, hdr, received, hsReply, eofRead,
                    uuids, peerLog, limits >>

\* set_activity ending with send_recv(data): after the send it waits for the
\* peer's answer
CallSetActivity_SendRecv ==
    /\ pc = "ready" /\ calls < limits.calls
    /\ \E act \in Activities :
         LET s == SetActivity(io, handle, act, uuids + 1)
         IN  /\ io' = s.t /\ err' = s.raised
             /\ lastCall' = Call("set_activity", -1, act)
             /\ IF s.raised # NoErr
                THEN UNCHANGED << pc, ctx, buf, remaining, eofRead >>
                ELSE /\ pc' = "recv_header" /\ ctx' = "recv"
                     /\ buf' = <<>> /\ remaining' = HeaderSize /\ eofRead' = FALSE
    /\ uuids' = uuids + 1
    /\ calls' = calls + 1
    /\ UNCHANGED << envVars, appVars, platform, pathExists, connectable, probed, visited, handle,
                    peer, peerSent, inbound, hdr, received, hsReply, peerLog, limits >>

CallSetActivity ==
    /\ pc = "ready" /\ calls < limits.calls
    /\ \E act \in Activities :
         LET s == SetActivity(io, handle, act, uuids + 1)
         IN  /\ io' = s.t /\ err' = s.raised
             /\ lastCall' = Call("set_activity", -1, act)
    /\ uuids' = uuids + 1
    /\ calls' = calls + 1
    /\ UNCHANGED << envVars, appVars, platform, pathExists, connectable, probed, visited, handle, peer, peerSent,
                    inbound, pc, ctx, buf, remaining, hdr, received, hsReply, eofRead,
                    peerLog, limits >>

CallRecv ==
    /\ pc = "ready" /\ calls < limits.calls
    /\ pc' = "recv_header"
    /\ ctx' = "recv"
    /\ buf' = <<>>
    /\ remaining' = HeaderSize
    /\ eofRead' = FALSE
    /\ err' = NoErr
    /\ calls' = calls + 1
    /\ lastCall' = Call("recv", -1, JNull)
    /\ UNCHANGED << envVars, appVars, platform, pathExists, connectable, probed, visited, handle, peer, peerSent,
                    inbound, io, hdr, received, hsReply, uuids, peerLog, limits >>

CallClose ==
    /\ pc = "ready" /\ calls < limits.calls
    /\ \E fault \in CloseFaults :
         LET c == Close(io, handle, fault)
         IN  io' = c.t /\ err' = c.raised
    /\ calls' = calls + 1
    /\ lastCall' = Call("close", -1, JNull)
    /\ UNCHANGED << envVars, appVars, platform, pathExists, connectable, probed, visited, handle, peer, peerSent,
                    inbound, pc, ctx, buf, remaining, hdr, received, hsReply, eofRead,
                    uuids, peerLog, limits >>

\* leaving a with-block: __exit__ calls close()
CallExit ==
    /\ pc = "ready" /\ calls < limits.calls
    /\ \E fault \in CloseFaults :
         LET c == Close(io, handle, fault)
         IN  io' = c.t /\ err' = c.raised
    /\ calls' = calls + 1
    /\ lastCall' = Call("__exit__", -1, JNull)
    /\ UNCHANGED << envVars, appVars, platform, pathExists, connectable, probed, visited, handle, peer, peerSent,
                    inbound, pc, ctx, buf, remaining, hdr, received, hsReply, eofRead,
                    uuids, peerLog, limits >>

(***************************************************************************)
(* The peer, on an established connection.                                 *)
(***************************************************************************)
PeerSend ==
    /\ pc \notin {"new", "failed"} /\ handle # NoHandle
    /\ peer = "open" /\ peerSent < limits.peer
    /\ \E m \in PeerMessages :
         /\ inbound' = inbound \o m
         /\ peerLog' = Append(peerLog, [bytes |-> m, echoOf |-> 0])
    /\ peerSent' = peerSent + 1
    /\ UNCHANGED << envVars, appVars, platform, pathExists, connectable, probed, visited, handle, peer, io, pc, ctx,
                    buf, remaining, hdr, received, hsReply, err, eofRead, calls,
                    lastCall, uuids, limits >>

\* the peer sends back, byte for byte, a frame the client wrote (one of at
\* most MaxEchoLen bytes)
PeerEcho ==
    /\ pc \notin {"new", "failed"} /\ handle # NoHandle
    /\ peer = "open" /\ peerSent < limits.peer
    /\ \E k \in 1..Len(io.wire) :
         /\ Len(io.wire[k]) <= MaxEchoLen
         /\ inbound' = inbound \o io.wire[k]
         /\ peerLog' = Append(peerLog, [bytes |-> io.wire[k], echoOf |-> k])
    /\ peerSent' = peerSent + 1
    /\ UNCHANGED << envVars, appVars, platform, pathExists, connectable, probed, visited, handle, peer, io, pc, ctx,
                    buf, remaining, hdr, received, hsReply, err, eofRead, calls,
                    lastCall, uuids, limits >>

PeerHangup ==
    /\ pc \notin {"new", "failed"} /\ handle # NoHandle
    /\ peer = "open"
    /\ peer' = "closed"
    /\ UNCHANGED << envVars, appVars, platform, pathExists, connectable, probed, visited, handle, peerSent, inbound,
                    io, pc, ctx, buf, remaining, hdr, received, hsReply, err, eofRead, calls,
                    lastCall, uuids, peerLog, limits >>

PeerReset ==
    /\ pc \notin {"new", "failed"} /\ handle # NoHandle
    /\ peer = "open"
    /\ peer' = "reset"
    /\ inbound' = <<>>
    /\ UNCHANGED << envVars, appVars, platform, pathExists, connectable, probed, visited, handle, peerSent, io, pc,
                    ctx, buf, remaining, hdr, received, hsReply, err, eofRead, calls,
                    lastCall, uuids, peerLog, limits >>

Next ==
    \/ Construct
    \/ RecvStep
    \/ CallSend
    \/ CallSetActivity
    \/ CallRecv
    \/ CallClose
    \/ CallExit
    \/ PeerSend
    \/ PeerEcho
    \/ PeerHangup
    \/ PeerReset

Spec == Init /\ [][Next]_vars

\* the same client and peer, with Discord listening and a longer exchange
SessionSpec == SessionInit /\ [][Next]_vars

(***************************************************************************)
(* The application as it is wired: thread1 runs discord_rpc, the main      *)
(* thread runs menu() and, inside root.mainloop(), the button handlers.    *)
(***************************************************************************)
\* the texts the handlers store in activity["details"]
DetailsTexts == { DetailsMenu, DetailsPerimetr }

AppInit ==
    /\ platform \in {"win32", "linux"}
    /\ pathExists \in {s \in SUBSET EnvSample : Cardinality(s) <= MaxExisting}
    /\ connectable \in SUBSET pathExists
    /\ (platform = "win32" => connectable = pathExists)
    /\ limits = [peer |-> MaxAppFrames, calls |-> MaxAppCalls]
    /\ environ = DefaultEnviron
    /\ InitClient

\* discord_rpc: DiscordIpcClient.for_platform(client_id), up to the first read
PubConnect ==
    /\ mainloop = "running" /\ pubPc = "connect"
    /\ Construct

\* discord_rpc inside for_platform: the read loop of the handshake's recv
PubHandshakeRead ==
    /\ mainloop = "running" /\ pubPc = "connect"
    /\ RecvStep

\* for_platform returned: print(...), then time.sleep(5) begins
PubConnected ==
    /\ mainloop = "running" /\ pubPc = "connect" /\ pc = "ready"
    /\ pubPc' = "sleep"
    /\ UNCHANGED << envVars, platform, pathExists, connectable, probed, visited, handle, peer,
                    peerSent, inbound, io, pc, ctx, buf, remaining, hdr, received,
                    hsReply, err, eofRead, calls, lastCall, uuids, peerLog, limits,
                    activity, mainloop >>

\* time.sleep(5) returns: the next pass of `while True` is about to call
\* set_activity
PubWake ==
    /\ mainloop = "running" /\ pubPc = "sleep" /\ calls < limits.calls
    /\ pubPc' = "publish"
    /\ UNCHANGED << envVars, platform, pathExists, connectable, probed, visited, handle, peer,
                    peerSent, inbound, io, pc, ctx, buf, remaining, hdr, received,
                    hsReply, err, eofRead, calls, lastCall, uuids, peerLog, limits,
                    activity, mainloop >>

\* the loop body with try/except around set_activity: an exception is
\* dropped and the loop goes on
PubPublish_Retry ==
    /\ mainloop = "running" /\ pubPc = "publish"
    /\ LET s == SetActivity(io, handle, activity, uuids + 1)
       IN  /\ io' = s.t /\ err' = s.raised
           /\ pubPc' = "sleep"
    /\ lastCall' = Call("set_activity", -1, activity)
    /\ uuids' = uuids + 1
    /\ calls' = calls + 1
    /\ UNCHANGED << envVars, platform, pathExists, connectable, probed, visited, handle, peer,
                    peerSent, inbound, pc, ctx, buf, remaining, hdr, received, hsReply,
                    eofRead, peerLog, limits, activity, mainloop >>

\* discord_rpc without its `while True`: one set_activity, then the function
\* returns
PubPublish_Once ==
    /\ mainloop = "running" /\ pubPc = "publish"
    /\ LET s == SetActivity(io, handle, activity, uuids + 1)
       IN  /\ io' = s.t /\ err' = s.raised
           /\ pubPc' = IF s.raised # NoErr THEN "dead" ELSE "returned"
    /\ lastCall' = Call("set_activity", -1, activity)
    /\ uuids' = uuids + 1
    /\ calls' = calls + 1
    /\ UNCHANGED << envVars, platform, pathExists, connectable, probed, visited, handle, peer,
                    peerSent, inbound, pc, ctx, buf, remaining, hdr, received, hsReply,
                    eofRead, peerLog, limits, activity, mainloop >>

\* the loop body publishing a copy of the activity dict taken when the module
\* was loaded
PubPublish_Snapshot ==
    /\ mainloop = "running" /\ pubPc = "publish"
    /\ LET s == SetActivity(io, handle, Activity(DetailsMenu), uuids + 1)
       IN  /\ io' = s.t /\ err' = s.raised
           /\ pubPc' = IF s.raised # NoErr THEN "dead" ELSE "sleep"
    /\ lastCall' = Call("set_activity", -1, Activity(DetailsMenu))
    /\ uuids' = uuids + 1
    /\ calls' = calls + 1
    /\ UNCHANGED << envVars, platform, pathExists, connectable, probed, visited, handle, peer,
                    peerSent, inbound, pc, ctx, buf, remaining, hdr, received, hsReply,
                    eofRead, peerLog, limits, activity, mainloop >>

\* the loop body: rpc_obj.set_activity(activity), then time.sleep(5) begins.
\* json.dumps reads the dict while send runs; an exception ends the thread.
\* the loop wrapped in try/finally: a set_activity that raises is followed by
\* client.close()
PubPublish_CloseOnFailure ==
    /\ mainloop = "running" /\ pubPc = "publish"
    /\ LET s == SetActivity(io, handle, activity, uuids + 1)
       IN  /\ io' = IF s.raised # NoErr THEN Close(s.t, handle, FALSE).t ELSE s.t
           /\ err' = s.raised
           /\ pubPc' = IF s.raised # NoErr THEN "dead" ELSE "sleep"
    /\ lastCall' = Call("set_activity", -1, activity)
    /\ uuids' = uuids + 1
    /\ calls' = calls + 1
    /\ UNCHANGED << envVars, platform, pathExists, connectable, probed, visited, handle, peer,
                    peerSent, inbound, pc, ctx, buf, remaining, hdr, received, hsReply,
                    eofRead, peerLog, limits, activity, mainloop >>

PubPublish ==
    /\ mainloop = "running" /\ pubPc = "publish"
    /\ LET s == SetActivity(io, handle, activity, uuids + 1)
       IN  /\ io' = s.t /\ err' = s.raised
           /\ pubPc' = IF s.raised # NoErr THEN "dead" ELSE "sleep"
    /\ lastCall' = Call("set_activity", -1, activity)
    /\ uuids' = uuids + 1
    /\ calls' = calls + 1
    /\ UNCHANGED << envVars, platform, pathExists, connectable, probed, visited, handle, peer,
                    peerSent, inbound, pc, ctx, buf, remaining, hdr, received, hsReply,
                    eofRead, peerLog, limits, activity, mainloop >>

\* a handler that, besides storing the text, publishes it from the main thread
UiSetDetails_Publishes ==
    /\ mainloop = "running" /\ handle # NoHandle
    /\ \E d \in DetailsTexts :
         LET a == JObj(DictSet(activity.kv, Chars("details"), JStr(d)))
             s == SetActivity(io, handle, a, uuids + 1)
         IN  /\ activity' = a
             /\ io' = s.t /\ err' = s.raised
             /\ lastCall' = Call("set_activity", -1, a)
    /\ uuids' = uuids + 1
    /\ UNCHANGED << envVars, platform, pathExists, connectable, probed, visited, handle, peer,
                    peerSent, inbound, pc, ctx, buf, remaining, hdr, received, hsReply,
                    eofRead, calls, peerLog, limits, mainloop, pubPc >>

\* a button handler of the main thread: activity["details"] = <text>
UiSetDetails ==
    /\ mainloop = "running"
    /\ \E d \in DetailsTexts :
         activity' = JObj(DictSet(activity.kv, Chars("details"), JStr(d)))
    /\ UNCHANGED << envVars, platform, pathExists, connectable, probed, visited, handle, peer,
                    peerSent, inbound, io, pc, ctx, buf, remaining, hdr, received,
                    hsReply, err, eofRead, calls, lastCall, uuids, peerLog, limits,
                    mainloop, pubPc >>

\* the quit button: close() calls sys.exit(0); thread1 is a daemon thread and
\* ends with the process
UiQuit ==
    /\ mainloop = "running"
    /\ mainloop' = "exited"
    /\ UNCHANGED << envVars, platform, pathExists, connectable, probed, visited, handle, peer,
                    peerSent, inbound, io, pc, ctx, buf, remaining, hdr, received,
                    hsReply, err, eofRead, calls, lastCall, uuids, peerLog, limits,
                    activity, pubPc >>

\* Discord's side while the application runs
AppPeerSend == mainloop = "running" /\ PeerSend
AppPeerHangup == mainloop = "running" /\ PeerHangup
AppPeerReset == mainloop = "running" /\ PeerReset

AppNext ==
    \/ PubConnect
    \/ PubHandshakeRead
    \/ PubConnected
    \/ PubWake
    \/ PubPublish
    \/ UiSetDetails
    \/ UiQuit
    \/ AppPeerSend
    \/ AppPeerHangup
    \/ AppPeerReset

AppSpec == AppInit /\ [][AppNext]_vars

\* the scheduler lets the thread of discord_rpc run: whenever it can take its
\* next step it eventually does.  For PubPublish, which stays enabled until
\* it is taken, weak fairness is written out: the thread does not stay in
\* front of the call for ever.
AppFairSpec ==
    /\ AppSpec
    /\ WF_vars(PubConnected) /\ WF_vars(PubWake)
    /\ []<>~(mainloop = "running" /\ pubPc = "publish")

(***************************************************************************)
(* The construction of a Unix client under every environment: the four     *)
(* variables take every combination of the values of EnvValues.            *)
(***************************************************************************)
PathInit ==
    /\ platform = "linux"
    /\ pathExists \in {s \in SUBSET EnvSample : Cardinality(s) <= MaxExisting}
    /\ connectable \in SUBSET pathExists
    /\ environ \in [{env_keys[n] : n \in DOMAIN env_keys} -> EnvValues]
    /\ limits = [peer |-> MaxPeerFrames, calls |-> MaxCalls]
    /\ InitClient

PathNext == Construct

PathSpec == PathInit /\ [][PathNext]_vars

(***************************************************************************)
(* Properties.                                                             *)
(***************************************************************************)
\* the reply the handshake is meant to accept: opcode Frame, cmd DISPATCH, evt READY
IsReadyReply(f) ==
    /\ f.op = OP_FRAME
    /\ f.data.t = "obj"
    /\ DictHas(f.data.kv, Chars("cmd"))
    /\ DictGet(f.data.kv, Chars("cmd")) = JStr(Chars("DISPATCH"))
    /\ DictHas(f.data.kv, Chars("evt"))
    /\ DictGet(f.data.kv, Chars("evt")) = JStr(Chars("READY"))

\* __init__ returned: the caller holds a client object
ObjectReturned == pc = "ready" \/ ctx = "recv"

\* the opcode in the header of a byte string that was written
WrittenOp(data) == UnLE32(SubSeq(data, 1, 4))

C2_ConnectRaises ==
    (pc # "new" /\ handle = NoHandle) =>
        /\ pc = "failed"
        /\ err.type = "DiscordIpcError"
        /\ io.writeCalls = 0
        /\ (platform = "win32" => Len(probed) = NumCandidates)

\* C3: no write is attempted on the transport unless a candidate was connected.
C3_NoWriteBeforeConnect == io.writeCalls > 0 => handle # NoHandle

\* C4: the handshake is accepted if and only if the reply is
\* (Frame, cmd = DISPATCH, evt = READY); every other reply is rejected.
C4_AcceptIffReady ==
    hsReply # NoFrame =>
        /\ ObjectReturned <=> IsReadyReply(hsReply)
        /\ pc = "failed" <=> ~IsReadyReply(hsReply)

\* C4 witness: a rejected reply that differs from the accepted one in cmd alone
C4_Witness ==
    /\ pc = "failed"
    /\ hsReply.op = OP_FRAME
    /\ hsReply.data = Obj(<< <<Chars("cmd"), JStr(Chars("x"))>>,
                             <<Chars("evt"), JStr(Chars("READY"))>> >>)

\* C5: every rejected reply makes the handshake fail with the handshake error
\* (RuntimeError) carrying the received payload.
C5_RejectionCarriesPayload ==
    (pc = "failed" /\ hsReply # NoFrame) =>
        (err.type = "RuntimeError" /\ err.arg = hsReply.data)

\* C6: a reply with opcode Close makes the handshake close the transport and
\* fail with the handshake error, also when the transport accepts no writes.
C6_CloseReplyClosesAndRaises ==
    (hsReply # NoFrame /\ hsReply.op = OP_CLOSE) =>
        (pc = "failed" /\ io.closeCalls = 1 /\ err.type = "RuntimeError")

\* C7: a rejected reply whose opcode is not Close leaves the transport open:
\* _close is not invoked, close() is not called, and nothing but the Handshake
\* frame was written or attempted.
C7_RejectWithoutClose ==
    (pc = "failed" /\ hsReply # NoFrame /\ hsReply.op # OP_CLOSE) =>
        /\ io.closeCalls = 0
        /\ io.closeInvoked = 0
        /\ ~io.released
        /\ io.writeCalls = 1
        /\ \A i \in 1 .. Len(io.wire) : WrittenOp(io.wire[i]) # OP_CLOSE

\* C7 witness: opcode Frame with a different evt, rejected with the handshake error
C7_Witness ==
    /\ pc = "failed"
    /\ err.type = "RuntimeError"
    /\ hsReply = [op |-> OP_FRAME,
                  data |-> Obj(<< <<Chars("cmd"), JStr(Chars("DISPATCH"))>>,
                                  <<Chars("evt"), JStr(Chars("ERROR"))>> >>)]

\* C8: once a transport read returned zero bytes before the requested count was
\* assembled, the read has ended with ConnectionClosed; it is not looping.
C8_EofRaises ==
    eofRead => (pc \notin {"recv_header", "recv_payload"} /\ err.type = "ConnectionClosed")

\* C9: every call of close() invokes the transport's _close exactly once, and
\* nothing else invokes it.
C9_CloseReleasesOnce ==
    [][ /\ io'.closeInvoked \in {io.closeInvoked, io.closeInvoked + 1}
        /\ io'.closeCalls - io.closeCalls = io'.closeInvoked - io.closeInvoked ]_vars

\* C9 witness: a public close() whose Close-frame send raised, and _close ran once
C9_Witness ==
    /\ pc = "ready" /\ calls = 1
    /\ io.closeInvoked = 1 /\ io.closeCalls = 1 /\ io.released
    /\ io.writeCalls = 2 /\ Len(io.wire) = 1
    /\ err.at = "_write"

\* C10: a close() whose Close-frame send raises while _close itself succeeds
\* returns normally: no error reaches the caller.
C10_CloseSwallowsSendError ==
    [][ ( /\ pc = "ready"
          /\ io'.closeInvoked = io.closeInvoked + 1
          /\ io'.writeCalls = io.writeCalls + 1
          /\ Len(io'.wire) = Len(io.wire)
          /\ err'.at # "_close" ) => err' = NoErr ]_vars

\* C11: whenever _close raises inside close(), the caller of close() gets that
\* error, whether the Close-frame send before it succeeded or raised.
C11_ReleaseErrorPropagates ==
    [][ io'.closeRaised > io.closeRaised
          => (err'.type = "OSError" /\ err'.at = "_close") ]_vars

\* C11 witness: a public close() whose Close frame was written and whose _close
\* raised
C11_Witness ==
    /\ lastCall.name = "close"
    /\ io.closeRaised = 1
    /\ io.sendLog[Len(io.sendLog)] = [op |-> OP_CLOSE, data |-> JObj(<<>>), ok |-> TRUE]
    /\ err.at = "_close"

\* C12: whatever public operations the caller invokes, the transport's _close
\* is invoked at most once.
C12_ReleaseAtMostOnce == io.closeCalls <= 1

\* C13: once the client is Closed (its transport released) or Failed (an
\* operation on the constructed client raised), no later operation writes a
\* frame, and no later recv returns a frame.
C13_NoUseAfterClosedOrFailed ==
    [][ /\ (pc = "ready" /\ (io.released \/ err # NoErr)) => io'.wire = io.wire
        /\ io.released => io'.recvLog = io.recvLog
        /\ \A n, m \in DOMAIN io'.recvLog :
              (n < m /\ io'.recvLog[n] = NoFrame) => io'.recvLog[m] = NoFrame ]_vars

\* the calls of send that returned, in order
OkSends == SelectSeq(io.sendLog, LAMBDA e : e.ok)

\* the unsigned integer whose little-endian bytes are b[i], ..., b[i+3]
LittleEndianAt(b, i) == b[i] + 256 * b[i + 1] + 65536 * b[i + 2] + 16777216 * b[i + 3]

\* C14: every frame send wrote carries, in bytes 5..8 of its header, the exact
\* number of bytes that follow the header, and these bytes are the whole
\* serialized payload of the call.
C14_HeaderLengthExact ==
    /\ Len(io.wire) = Len(OkSends)
    /\ \A k \in DOMAIN io.wire :
         LET f == io.wire[k]
         IN  /\ Len(f) >= HeaderSize
             /\ LittleEndianAt(f, 5) = Len(f) - HeaderSize
             /\ SubSeq(f, HeaderSize + 1, Len(f)) = EncodeUtf8(Dumps(OkSends[k].data))

\* C14 witness: set_activity wrote a frame whose payload is longer than 255
\* bytes, so that the second byte of the length field is in use
C14_Witness ==
    /\ lastCall.name = "set_activity" /\ err = NoErr
    /\ Len(io.wire[Len(io.wire)]) > HeaderSize + 255
    /\ io.wire[Len(io.wire)][6] = 1

\* C16: the header is 8 bytes, the opcode then the payload length, each a
\* 32-bit unsigned integer with its least significant byte first; recv decodes
\* the two fields in that order; the opcodes are 0..4.
C16_HeaderLayout ==
    /\ <<OP_HANDSHAKE, OP_FRAME, OP_CLOSE, OP_PING, OP_PONG>> = <<0, 1, 2, 3, 4>>
    /\ HeaderSize = 8
    /\ \A k \in DOMAIN io.wire :
         LET f == io.wire[k]
             o == OkSends[k].op
             n == Len(f) - 8
         IN  SubSeq(f, 1, 8) =
                 << o % 256, (o \div 256) % 256, (o \div 65536) % 256, o \div 16777216,
                    n % 256, (n \div 256) % 256, (n \div 65536) % 256, n \div 16777216 >>
    /\ \A n \in DOMAIN io.recvLog :
         io.recvLog[n] # NoFrame => io.recvLog[n].op = LittleEndianAt(peerLog[n].bytes, 1)
    /\ pc = "recv_payload" =>
         LET m == peerLog[Len(io.recvLog) + 1].bytes
         IN  hdr = [op |-> LittleEndianAt(m, 1), length |-> LittleEndianAt(m, 5)]

\* C16 witness: the Handshake frame is on the wire, and the recv of the
\* handshake returned a frame whose opcode field has two non-zero bytes
C16_Witness ==
    /\ Len(io.wire) = 1 /\ SubSeq(io.wire[1], 1, 4) = <<0, 0, 0, 0>>
    /\ io.wire[1][5] = Len(io.wire[1]) - 8
    /\ Len(io.recvLog) = 1
    /\ SubSeq(peerLog[1].bytes, 1, 8) = <<2, 1, 0, 0, 2, 0, 0, 0>>
    /\ hsReply = [op |-> 258, data |-> JObj(<<>>)]

\* C15: when the peer sends back the bytes send(p, o) wrote, the recv that
\* reads them, in whatever chunks the transport delivers them, returns (o, p).
C15_RoundTrip ==
    \A n \in DOMAIN io.recvLog :
        peerLog[n].echoOf # 0 =>
            io.recvLog[n] = [op |-> OkSends[peerLog[n].echoOf].op,
                             data |-> OkSends[peerLog[n].echoOf].data]

\* C15 witness: recv returned the Pong frame of a send whose payload holds a
\* non-ASCII character and a quote, read in more than one chunk
C15_Witness ==
    /\ lastCall.name = "recv" /\ pc = "ready" /\ err = NoErr
    /\ peerLog[Len(io.recvLog)].echoOf # 0
    /\ received = [op |-> OP_PONG, data |-> Obj(<< <<Chars("x"), JStr(<<1084, 34>>)>> >>)]
    /\ platform = "linux"

\* C17: a public recv that returned a frame returned one of the five opcodes.
C17_UnknownOpcodeRejected ==
    (ctx = "recv" /\ pc = "ready" /\ err = NoErr /\ received # NoFrame)
        => received.op \in {OP_HANDSHAKE, OP_FRAME, OP_CLOSE, OP_PING, OP_PONG}

\* whether the bytes b are well-formed UTF-8 holding one JSON document
ValidPayload(b) ==
    LET text == DecodeUtf8(b, 1, <<>>) IN text.ok /\ Loads(text.s).ok

FrameOf(m) ==
    [op |-> LittleEndianAt(m, 1),
     data |-> Loads(DecodeUtf8(SubSeq(m, HeaderSize + 1, Len(m)), 1, <<>>).s).v]

\* C19: the frames on the wire are those of the send calls that returned, in
\* the order of the calls, each header directly followed by its own payload;
\* the n-th recv that read a frame read the n-th frame the peer sent.
C19_FramesInOrder ==
    /\ Len(io.wire) = Len(OkSends)
    /\ \A k \in DOMAIN io.wire :
         LET f == io.wire[k]
         IN  /\ LittleEndianAt(f, 1) = OkSends[k].op
             /\ Len(f) = HeaderSize + LittleEndianAt(f, 5)
             /\ SubSeq(f, HeaderSize + 1, Len(f)) = EncodeUtf8(Dumps(OkSends[k].data))
    /\ Len(io.recvLog) <= Len(peerLog)
    /\ \A n \in DOMAIN io.recvLog :
         LET m == peerLog[n].bytes
         IN  IF ValidPayload(SubSeq(m, HeaderSize + 1, Len(m)))
             THEN io.recvLog[n] = FrameOf(m)
             ELSE io.recvLog[n] = NoFrame

\* C19 witness: a send after the handshake, and a recv after the handshake's
\* recv, with two different frames in each direction
C19_Witness ==
    /\ Len(io.wire) = 2 /\ io.wire[1] # io.wire[2]
    /\ Len(io.recvLog) = 2
    /\ io.recvLog[1] # NoFrame /\ io.recvLog[2] # NoFrame
    /\ io.recvLog[1] # io.recvLog[2]

\* whether a logged send carries the nonce s
HasNonce(e, s) ==
    /\ e.data.t = "obj"
    /\ DictHas(e.data.kv, Chars("nonce"))
    /\ DictGet(e.data.kv, Chars("nonce")) = JStr(s)

\* C20: set_activity(act) calls send once, with opcode Frame and the envelope
\* {cmd: "SET_ACTIVITY", args: {pid, activity: act}, nonce}, act as it was
\* passed, the nonce a non-empty string no earlier call has used.
C20_SetActivityEnvelope ==
    [][ uuids' # uuids =>
          LET e == io'.sendLog[Len(io'.sendLog)]
              nonce == DictGet(e.data.kv, Chars("nonce"))
          IN  /\ io'.sendLog = Append(io.sendLog, e)
              /\ io'.writeCalls = io.writeCalls + 1
              /\ e.op = OP_FRAME
              /\ lastCall'.name = "set_activity"
              /\ e.data = Obj(<< <<Chars("cmd"), JStr(Chars("SET_ACTIVITY"))>>,
                                 <<Chars("args"), Obj(<< <<Chars("pid"), JInt(Pid)>>,
                                                         <<Chars("activity"), lastCall'.arg>> >>)>>,
                                 <<Chars("nonce"), nonce>> >>)
              /\ nonce.t = "str" /\ nonce.s # <<>>
              /\ \A j \in DOMAIN io.sendLog : ~HasNonce(io.sendLog[j], nonce.s) ]_vars

\* C20 witness: two set_activity calls, the second with the activity Perimetr
\* left, both written to the wire
C20_Witness ==
    /\ uuids = 2 /\ lastCall = Call("set_activity", -1, Activity(DetailsPerimetr))
    /\ Len(io.wire) = 3 /\ err = NoErr
    /\ HasNonce(io.sendLog[2], Uuid4Str(1)) /\ HasNonce(io.sendLog[3], Uuid4Str(2))

\* C21: set_activity reads nothing: the step that calls it leaves the inbound
\* bytes, the read buffer and the frames received as they were, and does not
\* enter the read loop.
C21_SetActivityReadsNothing ==
    [][ uuids' # uuids =>
          /\ inbound' = inbound
          /\ pc' = pc /\ ctx' = ctx
          /\ buf' = buf /\ remaining' = remaining
          /\ received' = received /\ io'.recvLog = io.recvLog ]_vars

\* C21 witness: set_activity wrote its frame, and bytes of a frame the peer
\* sent after its handshake reply are still waiting
C21_Witness ==
    /\ lastCall.name = "set_activity" /\ err = NoErr /\ pc = "ready"
    /\ Len(io.recvLog) = 1 /\ Len(peerLog) = 2
    /\ inbound = peerLog[2].bytes

\* C22: once for_platform returned, the thread of discord_rpc goes on calling
\* set_activity: from every pass of the loop another call follows for as long
\* as the model lets the loop run, unless a send raised or the process ended;
\* each call is followed by a sleep, and the first is preceded by one.
C22_PublisherNeverStops ==
    /\ \A n \in 0 .. (MaxAppCalls - 1) :
          (pubPc \in {"sleep", "publish"} /\ calls = n)
              ~> (calls = n + 1 \/ pubPc = "dead" \/ mainloop = "exited")
    /\ [][ uuids' # uuids => (pubPc = "publish" /\ pubPc' \in {"sleep", "dead"}) ]_vars
    /\ [][ (pubPc' = "publish" /\ pubPc # "publish") => pubPc = "sleep" ]_vars

\* C22 witness: two passes of the loop have each written a set_activity frame
\* and the thread sleeps again
C22_Witness ==
    /\ pubPc = "sleep" /\ calls = 2 /\ uuids = 2 /\ err = NoErr
    /\ Len(io.wire) = 3
    /\ HasNonce(io.sendLog[2], Uuid4Str(1)) /\ HasNonce(io.sendLog[3], Uuid4Str(2))
    /\ mainloop = "running"

\* C23: once for_platform or set_activity has raised in the thread of
\* discord_rpc, that thread does nothing more (no write, no probe, no new
\* connection, no further call), while the step that raised leaves the main
\* loop running and its handlers can still run.
C23_FailureKillsPublisherOnly ==
    [][ /\ (err' # NoErr /\ err = NoErr) => mainloop' = mainloop
        /\ err # NoErr =>
              /\ io' = io /\ err' = err /\ pc' = pc
              /\ probed' = probed /\ visited' = visited /\ handle' = handle
              /\ uuids' = uuids /\ calls' = calls
              /\ (mainloop = "running" => ENABLED UiSetDetails) ]_vars

\* C23 witness: the first set_activity raised in _write, the thread is dead,
\* and the main loop has since run a handler
C23_Witness ==
    /\ pubPc = "dead" /\ err.at = "_write" /\ uuids = 1 /\ pc = "ready"
    /\ mainloop = "running"
    /\ activity = Activity(DetailsPerimetr)

\* C24: in a run of the application no candidate index is gone through or
\* tried twice, at most one frame with opcode Handshake is sent, and at most
\* one reply is read, the one the handshake got.
C24_HandshakeOnce ==
    /\ \A i, j \in DOMAIN visited : i # j => visited[i] # visited[j]
    /\ \A i, j \in DOMAIN probed : i # j => probed[i] # probed[j]
    /\ Cardinality({k \in DOMAIN io.sendLog : io.sendLog[k].op = OP_HANDSHAKE}) <= 1
    /\ Len(io.recvLog) <= 1
    /\ (hsReply # NoFrame => io.recvLog = << hsReply >>)

\* C24 witness: the last candidate was the one connected, the handshake was
\* accepted, and two set_activity frames followed the one Handshake frame
C24_Witness ==
    /\ handle = 9 /\ visited = << 0, 1, 2, 3, 4, 5, 6, 7, 8, 9 >>
    /\ IsReadyReply(hsReply) /\ io.recvLog = << hsReply >>
    /\ Len(io.sendLog) = 3
    /\ io.sendLog[1].op = OP_HANDSHAKE
    /\ io.sendLog[2].op = OP_FRAME /\ io.sendLog[3].op = OP_FRAME

\* what the client object and its transport hold
clientVars == << probed, visited, handle, io, pc, ctx, buf, remaining, hdr, received,
                 hsReply, err, eofRead, calls, lastCall, uuids >>

\* the activity a logged set_activity call sent
SentActivity(e) == DictGet(DictGet(e.data.kv, Chars("args")).kv, Chars("activity"))

\* C25: no step of the main thread (a handler storing a text, or the quit)
\* touches the client or reads from the transport, and while the read of the
\* handshake is in progress no other operation on the client begins.
C25_PublisherOwnsConnection ==
    [][ /\ (activity' # activity \/ mainloop' # mainloop) =>
              (clientVars' = clientVars /\ inbound' = inbound)
        /\ pc \in {"recv_header", "recv_payload"} =>
              /\ uuids' = uuids /\ calls' = calls /\ lastCall' = lastCall
              /\ (pc' \in {"recv_header", "recv_payload"} => io' = io) ]_vars

\* C25 witness: the main thread stored a new text between two passes of the
\* loop of discord_rpc
C25_Witness ==
    /\ pubPc = "publish" /\ uuids = 1 /\ mainloop = "running"
    /\ SentActivity(io.sendLog[2]) = Activity(DetailsMenu)
    /\ activity = Activity(DetailsPerimetr)

\* an activity with its three entries
CompleteActivity(a) ==
    /\ a.t = "obj"
    /\ DictHas(a.kv, Chars("state")) /\ DictGet(a.kv, Chars("state")).t = "str"
    /\ DictHas(a.kv, Chars("details")) /\ DictGet(a.kv, Chars("details")).t = "str"
    /\ DictHas(a.kv, Chars("assets")) /\ DictGet(a.kv, Chars("assets")).t = "obj"

\* C26: the frame a pass of the loop of discord_rpc sends carries the activity
\* dict as it is when that send runs, whatever the handlers stored before,
\* and that value has its state, details and assets.
C26_PublishesCurrentActivity ==
    [][ uuids' # uuids =>
          LET e == io'.sendLog[Len(io'.sendLog)]
          IN  /\ Len(io'.sendLog) = Len(io.sendLog) + 1
              /\ SentActivity(e) = activity
              /\ CompleteActivity(SentActivity(e))
              /\ (e.ok => SubSeq(io'.wire[Len(io'.wire)], HeaderSize + 1,
                                 Len(io'.wire[Len(io'.wire)])) = Dumps(e.data)) ]_vars

\* C26 witness: a handler stored a new text after the first pass, and the
\* second pass sent it
C26_Witness ==
    /\ uuids = 2 /\ err = NoErr /\ Len(io.wire) = 3
    /\ SentActivity(io.sendLog[2]) = Activity(DetailsMenu)
    /\ SentActivity(io.sendLog[3]) = Activity(DetailsPerimetr)
    /\ activity = Activity(DetailsPerimetr)

\* C27: when some candidate is connectable and k is the lowest such index,
\* _connect connected k after going through 0, 1, ..., k in this order, each
\* once, and tried to open or connect none above k.
C27_FirstConnectableWins ==
    (pc # "new" /\ connectable # {}) =>
        LET k == CHOOSE i \in connectable : \A j \in connectable : i <= j
        IN  /\ handle = k
            /\ visited = [n \in 1 .. (k + 1) |-> n - 1]
            /\ probed # <<>> /\ probed[Len(probed)] = k
            /\ \A n \in DOMAIN probed : probed[n] <= k
            /\ \A n, m \in DOMAIN probed : n < m => probed[n] < probed[m]

\* C27 witness: on Linux the paths of candidates 0 and 9 exist and only 9
\* accepts the connection
C27_Witness ==
    /\ platform = "linux" /\ pathExists = {0, 9} /\ connectable = {9}
    /\ handle = 9 /\ probed = << 0, 9 >>
    /\ visited = << 0, 1, 2, 3, 4, 5, 6, 7, 8, 9 >>

\* every byte the peer has sent on the connection, in order
RECURSIVE StreamUpTo(_)
StreamUpTo(n) == IF n = 0 THEN <<>> ELSE StreamUpTo(n - 1) \o peerLog[n].bytes

PeerStream == StreamUpTo(Len(peerLog))

\* the position in the peer's stream the transport has delivered up to
Consumed == Len(PeerStream) - Len(inbound)

\* C28: whatever the sizes of the chunks _recv returned, the buffer
\* _recv_exactly has assembled is the run of stream bytes starting where the
\* read started, which is what one read delivering them all at once yields;
\* the bytes assembled and the bytes still asked for add up to the size.
C28_ChunkingInvisible ==
    (handle # NoHandle /\ peer # "reset") =>
        /\ buf = SubSeq(PeerStream, Consumed - Len(buf) + 1, Consumed)
        /\ pc \in {"recv_header", "recv_payload"} =>
               /\ remaining >= 0
               /\ Len(buf) + remaining =
                      (IF pc = "recv_header" THEN HeaderSize ELSE hdr.length)

\* C28 witness: on Linux a payload is partly assembled, from reads shorter
\* than what was asked for, and more of it is still to come
C28_Witness ==
    /\ platform = "linux" /\ pc = "recv_payload"
    /\ Len(buf) >= 2 /\ remaining >= 1 /\ eofRead = FALSE
    /\ buf = SubSeq(peerLog[1].bytes, HeaderSize + 1, HeaderSize + Len(buf))

\* where the k-th frame of the peer's stream ends, going by the length
\* fields of the headers in the stream itself
RECURSIVE FrameEnd(_, _)
FrameEnd(stream, k) ==
    IF k = 0 THEN 0
    ELSE LET start == FrameEnd(stream, k - 1)
         IN  IF start + HeaderSize > Len(stream) THEN Len(stream) + 1
             ELSE start + HeaderSize
                    + UnpackHeader(SubSeq(stream, start + 1, start + HeaderSize)).length

\* C29: when recv has read a frame, the k-th of the connection, the transport
\* has delivered the stream exactly up to the end of its k-th frame, that is
\* 8 + payload_length bytes more than before that recv; and no single _recv
\* takes more bytes than the header or payload still misses.
C29_RecvStopsAtFrameBoundary ==
    [][ (pc \in {"recv_header", "recv_payload"} /\ peer' # "reset") =>
          /\ Len(inbound) - Len(inbound') <= remaining
          /\ Len(io'.recvLog) # Len(io.recvLog) =>
                 /\ Len(io'.recvLog) = Len(io.recvLog) + 1
                 /\ Consumed' = FrameEnd(PeerStream', Len(io'.recvLog))
                 /\ Consumed' - FrameEnd(PeerStream, Len(io.recvLog)) = HeaderSize + hdr'.length ]_vars

\* C29 witness: the handshake's reply has been read while the peer's second
\* frame had arrived already; all of that second frame is still waiting
C29_Witness ==
    /\ pc = "ready" /\ err = NoErr /\ Len(io.recvLog) = 1
    /\ Len(peerLog) = 2 /\ inbound = peerLog[2].bytes
    /\ Consumed = Len(peerLog[1].bytes)

\* the bytes of the frame with opcode 0 and the payload
\* {"v":1,"client_id":"797139388513386546"}
HandshakeFrameBytes ==
    <<
       0, 0, 0, 0, 40, 0, 0, 0, 123, 34, 118, 34, 58, 49, 44, 34, 99,
       108, 105, 101, 110, 116, 95, 105, 100, 34, 58, 34, 55, 57, 55,
       49, 51, 57, 51, 56, 56, 53, 49, 51, 51, 56, 54, 53, 52, 54, 34,
       125 >>

\* C30: the first frame written on a connection is the Handshake frame with
\* payload {v: 1, client_id: the identity}, and a frame with opcode Frame is
\* written only after the handshake's reply was read and accepted.
C30_HandshakeFirst ==
    /\ io.sendLog # <<>> => io.sendLog[1].op = OP_HANDSHAKE
    /\ io.wire # <<>> => io.wire[1] = HandshakeFrameBytes
    /\ \A i \in DOMAIN io.wire :
           WrittenOp(io.wire[i]) = OP_FRAME =>
               i > 1 /\ hsReply # NoFrame /\ IsReadyReply(hsReply)
    /\ \A i \in DOMAIN io.sendLog :
           io.sendLog[i].op = OP_FRAME =>
               i > 1 /\ hsReply # NoFrame /\ IsReadyReply(hsReply)

\* C30 witness: after an accepted handshake a frame with opcode Frame was
\* written as the second frame of the connection
C30_Witness ==
    /\ Len(io.wire) = 2 /\ io.wire[1] = HandshakeFrameBytes
    /\ WrittenOp(io.wire[2]) = OP_FRAME
    /\ hsReply # NoFrame /\ IsReadyReply(hsReply)

\* the indices _connect attempted a connection to
Attempted == { probed[n] : n \in DOMAIN probed }

\* C31: on Linux _connect attempts a connection only to candidates whose path
\* exists, each once and in ascending order, and a failed attempt does not end
\* the enumeration: every existing candidate up to the first one that accepts
\* (all of them when none accepts) is attempted.
C31_OnlyExistingPathsTried ==
    (platform = "linux" /\ pc # "new") =>
        /\ Attempted \subseteq pathExists
        /\ Cardinality(Attempted) = Len(probed)
        /\ \A i \in pathExists :
               (\A j \in connectable : i <= j) => i \in Attempted
        /\ \A i \in Attempted : \A j \in connectable : i <= j

\* C31 witness: candidates 0 and 9 exist and neither accepts; after the failed
\* attempt on 0 the loop went on, left 1..8 alone and attempted 9
C31_Witness ==
    /\ platform = "linux" /\ pc # "new"
    /\ pathExists = {0, 9} /\ connectable = {}
    /\ probed = << 0, 9 >> /\ handle = NoHandle
    /\ Len(visited) = NumCandidates

\* C32: while every _recv returns between 1 and the requested number of bytes,
\* each pass of the loop of _recv_exactly(n) lowers size_remaining by what it
\* got, at least 1, and never below 0, so the loop ends within n passes; all
\* along 0 <= size_remaining <= n and len(buf) + size_remaining = n, and the
\* loop ends with exactly n bytes.
C32_ReadExactlyBounded ==
    [][ (pc \in {"recv_header", "recv_payload"} /\ peer' # "reset"
            /\ Len(inbound') < Len(inbound)) =>
          LET got == Len(inbound) - Len(inbound')
              n == IF pc = "recv_header" THEN HeaderSize ELSE hdr.length
          IN  /\ 0 <= remaining /\ remaining <= n
              /\ Len(buf) + remaining = n
              /\ IF got < remaining
                 THEN /\ pc' = pc
                      /\ remaining' = remaining - got
                      /\ 1 <= remaining' /\ remaining' < remaining
                      /\ Len(buf') + remaining' = n
                 ELSE /\ got = remaining
                      /\ pc = "recv_payload" => Len(buf') = n /\ remaining' = 0
                      /\ pc = "recv_header" =>
                             hdr' = UnpackHeader(SubSeq(PeerStream', Consumed' - HeaderSize + 1,
                                                        Consumed')) ]_vars

\* C32 witness: on Linux seven bytes of a header have come in and the loop
\* asks for the one still missing
C32_Witness ==
    /\ platform = "linux" /\ pc = "recv_header" /\ eofRead = FALSE
    /\ Len(buf) = HeaderSize - 1 /\ remaining = 1

\* close() was entered, a Close frame was handed to send, or _close ran
CloseAttempted ==
    \/ io.closeInvoked > 0 \/ io.closeCalls > 0 \/ io.released
    \/ \E k \in DOMAIN io.sendLog : io.sendLog[k].op = OP_CLOSE
    \/ \E k \in DOMAIN io.wire : WrittenOp(io.wire[k]) = OP_CLOSE

\* C33: in the application close() runs only inside _do_handshake, once, on a
\* reply with opcode Close; once the handshake has been accepted no Close frame
\* is sent and _close is not invoked, whatever happens afterwards (a
\* set_activity that raises, the peer going away, the quit button).
C33_CloseOnlyOnHandshakeClose ==
    /\ CloseAttempted =>
           /\ hsReply # NoFrame /\ hsReply.op = OP_CLOSE
           /\ pc = "failed" /\ pubPc = "connect"
           /\ io.closeInvoked = 1 /\ io.closeCalls = 1
    /\ (hsReply # NoFrame /\ IsReadyReply(hsReply)) => ~CloseAttempted

\* C33 witness: after an accepted handshake a set_activity raised, the thread
\* of discord_rpc ended, the quit button was used, and nothing was closed
C33_Witness ==
    /\ hsReply # NoFrame /\ IsReadyReply(hsReply)
    /\ pubPc = "dead" /\ err # NoErr /\ mainloop = "exited"
    /\ ~CloseAttempted

\* the first of env_keys whose variable is set to a non-empty value, 0 if none
FirstSetKey ==
    LET live == {n \in DOMAIN env_keys :
                    environ[env_keys[n]].set /\ environ[env_keys[n]].s # <<>>}
    IN  IF live = {} THEN 0 ELSE CHOOSE n \in live : \A m \in live : n <= m

BaseDir == IF FirstSetKey = 0 THEN Chars("/tmp") ELSE environ[env_keys[FirstSetKey]].s

\* the entry discord-ipc-<i> of the directory dir
CandidatePath(dir, i) ==
    dir \o (IF dir[Len(dir)] = 47 THEN <<>> ELSE <<47>>) \o Chars("discord-ipc-") \o <<48 + i>>

\* C34: on Linux the base directory is the value of the first of
\* XDG_RUNTIME_DIR, TMPDIR, TMP, TEMP that is set and not empty, /tmp when
\* none is, and every candidate i that _connect goes through has the path
\* <base directory>/discord-ipc-<i>.
C34_PathFromEnvironment ==
    (platform = "linux" /\ pc # "new") =>
        /\ paths # <<>> /\ Len(paths) = Len(visited)
        /\ \A n \in DOMAIN paths : paths[n] = CandidatePath(BaseDir, visited[n])

====
